---- MODULE Spec2Model ----
(***************************************************************************)
(* Brain tumor management system: the patient / scan repository            *)
(* (app/models/patient.py, SQLite behind per-call connections) and the     *)
(* classification engine (app/models/predict.py).                          *)
(*                                                                         *)
(* Encoding of values.  Python None and SQL NULL are the empty tuple, a    *)
(* present value v is the one-element tuple <<v>>.  Text whose characters  *)
(* matter (name, contact, email, dates, search queries) is a tuple of      *)
(* one-character strings; other text is an atomic string.  A REAL          *)
(* confidence c is held as the integer 100*c, so the closed interval       *)
(* [0, 1] is 0..100.                                                       *)
(***************************************************************************)
EXTENDS Integers, Sequences, FiniteSets, TLC

VARIABLES patients, scans, now, last, files, engine, answer, stats

repo_vars == <<patients, scans, now, last>>
engine_vars == <<files, engine, answer, stats>>
vars == <<patients, scans, now, last, files, engine, answer, stats>>

\* ------------------------------------------------------------------ bounds
MaxPatients == 1
MaxSearchPatients == 2
MaxScans == 2
MaxFaultScans == 1
MaxDay == 2
MaxCalls == 3
MaxQueryLen == 2
MaxOrderScans == 3

\* ------------------------------------------------------------------ values
None == <<>>
Some(v) == <<v>>
IsNull(o) == o = None

RECURSIVE SeqToSet(_)
SeqToSet(s) == IF s = <<>> THEN {} ELSE {Head(s)} \cup SeqToSet(Tail(s))

\* All orderings of the rows of set S (each row once).
Orderings(S) ==
    {s \in [1..Cardinality(S) -> S] : \A i, j \in 1..Cardinality(S) : s[i] = s[j] => i = j}

\* ------------------------------------------------------------------ text
\* Byte value of a character: SQLite's default BINARY collation compares
\* text with memcmp, so ORDER BY follows these codes.
Code(c) ==
    CASE c = "%" -> 37
      [] c = "-" -> 45
      [] c = "0" -> 48 [] c = "1" -> 49 [] c = "2" -> 50 [] c = "3" -> 51
      [] c = "4" -> 52 [] c = "5" -> 53 [] c = "6" -> 54 [] c = "7" -> 55
      [] c = "8" -> 56 [] c = "9" -> 57
      [] c = "A" -> 65 [] c = "B" -> 66
      [] c = "_" -> 95
      [] c = "a" -> 97 [] c = "b" -> 98

\* SQLite's LIKE folds the 26 ASCII upper-case letters only.
Lower(c) == CASE c = "A" -> "a" [] c = "B" -> "b" [] OTHER -> c

RECURSIVE TextLess(_, _)
TextLess(s, t) ==
    IF t = <<>> THEN FALSE
    ELSE IF s = <<>> THEN TRUE
    ELSE IF Code(Head(s)) # Code(Head(t)) THEN Code(Head(s)) < Code(Head(t))
    ELSE TextLess(Tail(s), Tail(t))

\* x LIKE pattern, no ESCAPE clause: '%' matches any run of characters,
\* '_' matches exactly one, every other character matches itself up to
\* ASCII case.
RECURSIVE LikeMatch(_, _)
LikeMatch(p, s) ==
    IF p = <<>> THEN s = <<>>
    ELSE IF Head(p) = "%"
         THEN LikeMatch(Tail(p), s) \/ (s # <<>> /\ LikeMatch(p, Tail(s)))
    ELSE /\ s # <<>>
         /\ (Head(p) = "_" \/ Lower(Head(p)) = Lower(Head(s)))
         /\ LikeMatch(Tail(p), Tail(s))

\* column LIKE ? on a nullable column: NULL LIKE x is NULL, which WHERE
\* treats as false.
ColumnLike(col, pattern) == ~IsNull(col) /\ LikeMatch(pattern, col[1])

\* ------------------------------------------------------------------ clock
Digit(d) == <<"0", "1", "2", "3", "4", "5", "6", "7", "8", "9">>[d + 1]
Pad2(n) == <<Digit(n \div 10), Digit(n % 10)>>
Pad4(n) == <<Digit(n \div 1000), Digit((n \div 100) % 10), Digit((n \div 10) % 10), Digit(n % 10)>>

\* The wall clock: day 1 is 2024-12-31, day 2 is 2025-01-01, ...
CivilDate(day) ==
    IF day = 1 THEN [y |-> 2024, m |-> 12, d |-> 31]
    ELSE [y |-> 2025, m |-> 1, d |-> day - 1]

\* datetime.now().strftime('%Y-%m-%d')
strftime_ymd(day) ==
    LET t == CivilDate(day) IN Pad4(t.y) \o <<"-">> \o Pad2(t.m) \o <<"-">> \o Pad2(t.d)

\* ------------------------------------------------------------------ store
\* Faults the persistence store can raise inside one call: at connect
\* (sqlite3.connect), at a statement (cursor.execute) or at conn.commit().
ReadFaults == {"none", "connect", "execute"}
WriteFaults == {"none", "connect", "execute", "commit"}

\* get_db_connection: opens a connection or raises.  No PRAGMA is issued on
\* the new connection, so SQLite's foreign-key enforcement keeps its
\* default, off.
get_db_connection(fault) ==
    [ok |-> fault # "connect", foreign_keys |-> FALSE]

\* The patients table of init_db: the NOT NULL columns.
patients_schema_ok(row) ==
    /\ ~IsNull(row.name)
    /\ ~IsNull(row.age)
    /\ ~IsNull(row.gender)
    /\ ~IsNull(row.registration_date)

\* The scans table of init_db: the NOT NULL columns and the FOREIGN KEY
\* clause, which SQLite checks only on a connection that enabled it.
scans_schema_ok(conn, row) ==
    /\ ~IsNull(row.patient_id)
    /\ ~IsNull(row.image_path)
    /\ ~IsNull(row.scan_date)
    /\ (conn.foreign_keys =>
            \E i \in 1..Len(patients) : patients[i].id = row.patient_id[1])

\* cursor.lastrowid of an INSERT into an AUTOINCREMENT table from which no
\* row is ever deleted (a rolled-back insert does not consume an id).
lastrowid(table) == Len(table) + 1

\* What one call does: the committed tables after it, the values it may
\* return, the exception that leaves it ("none": it returned), whether it
\* returns without having closed the connection it opened, and the store
\* failure it met ("none", or where: connect, execute, commit).
Outcome(ps, ss, rets, raised, unclosed, failure) ==
    [patients |-> ps, scans |-> ss, rets |-> rets, raised |-> raised,
     unclosed |-> unclosed, failure |-> failure]

\* return <value> after conn.close()
Returns(v) == Outcome(patients, scans, {v}, "none", FALSE, "none")

\* The except branch of a repository function: log, return the absence
\* value.  Nothing was committed; conn.close() was not reached, so a
\* connection that was opened is left to the runtime.
Caught(absent, opened, failure) ==
    Outcome(patients, scans, {absent}, "none", opened, failure)

\* ------------------------------------------------------------------ patients
\* add_patient with an except branch that logs and re-raises, as init_db's
\* does.
add_patient_reraise(name, age, gender, contact, email, address, medical_history, fault) ==
    LET conn == get_db_connection(fault)
        row == [id |-> lastrowid(patients), name |-> name, age |-> age,
                gender |-> gender, contact |-> contact, email |-> email,
                address |-> address, medical_history |-> medical_history,
                registration_date |-> Some(strftime_ymd(now))]
    IN  IF ~conn.ok
        THEN Outcome(patients, scans, {None}, "OperationalError", FALSE, "connect")
        ELSE IF fault = "execute" \/ ~patients_schema_ok(row)
        THEN Outcome(patients, scans, {None}, "DatabaseError", TRUE, "execute")
        ELSE IF fault = "commit"
        THEN Outcome(patients, scans, {None}, "OperationalError", TRUE, "commit")
        ELSE Outcome(Append(patients, row), scans, {Some(row.id)}, "none", FALSE, "none")

add_patient(name, age, gender, contact, email, address, medical_history, fault) ==
    LET conn == get_db_connection(fault)
        row == [id |-> lastrowid(patients), name |-> name, age |-> age,
                gender |-> gender, contact |-> contact, email |-> email,
                address |-> address, medical_history |-> medical_history,
                registration_date |-> Some(strftime_ymd(now))]
    IN  IF ~conn.ok THEN Caught(None, FALSE, "connect")
        ELSE IF fault = "execute" \/ ~patients_schema_ok(row) THEN Caught(None, TRUE, "execute")
        ELSE IF fault = "commit" THEN Caught(None, TRUE, "commit")
        ELSE Outcome(Append(patients, row), scans, {Some(row.id)}, "none", FALSE, "none")

\* get_patient with the WHERE clause lost: fetchone() yields the first row
\* of the table.
get_patient_first_row(patient_id, fault) ==
    LET conn == get_db_connection(fault) IN
    IF ~conn.ok THEN Caught(None, FALSE, "connect")
    ELSE IF fault = "execute" THEN Caught(None, TRUE, "execute")
    ELSE IF patients = <<>> THEN Returns(None)
    ELSE Returns(Some(patients[1]))

get_patient(patient_id, fault) ==
    LET conn == get_db_connection(fault)
        found == {i \in 1..Len(patients) : patients[i].id = patient_id}
    IN  IF ~conn.ok THEN Caught(None, FALSE, "connect")
        ELSE IF fault = "execute" THEN Caught(None, TRUE, "execute")
        ELSE IF found = {} THEN Returns(None)
        ELSE Returns(Some(patients[CHOOSE i \in found : TRUE]))

\* The results ORDER BY name may produce for the rows of set S: every
\* ordering in which names never decrease (SQL leaves the order of rows
\* with equal keys open).
OrderByName(S) ==
    {s \in Orderings(S) :
        \A i, j \in 1..Len(s) : i < j => ~TextLess(s[j].name[1], s[i].name[1])}

get_all_patients(fault) ==
    LET conn == get_db_connection(fault) IN
    IF ~conn.ok THEN Caught(<<>>, FALSE, "connect")
    ELSE IF fault = "execute" THEN Caught(<<>>, TRUE, "execute")
    ELSE Outcome(patients, scans, OrderByName(SeqToSet(patients)), "none", FALSE, "none")

search_patients(query, fault) ==
    LET conn == get_db_connection(fault)
        search_term == <<"%">> \o query \o <<"%">>
        hits == {p \in SeqToSet(patients) :
                    \/ ColumnLike(p.name, search_term)
                    \/ ColumnLike(p.contact, search_term)
                    \/ ColumnLike(p.email, search_term)}
    IN  IF ~conn.ok THEN Caught(<<>>, FALSE, "connect")
        ELSE IF fault = "execute" THEN Caught(<<>>, TRUE, "execute")
        ELSE Outcome(patients, scans, OrderByName(hits), "none", FALSE, "none")

\* ------------------------------------------------------------------ scans
add_scan(patient_id, image_path, tumor_type, confidence, doctor_notes, fault) ==
    LET conn == get_db_connection(fault)
        row == [id |-> lastrowid(scans), patient_id |-> patient_id,
                image_path |-> image_path, tumor_type |-> tumor_type,
                confidence |-> confidence,
                scan_date |-> Some(strftime_ymd(now)),
                doctor_notes |-> doctor_notes]
    IN  IF ~conn.ok THEN Caught(None, FALSE, "connect")
        ELSE IF fault = "execute" \/ ~scans_schema_ok(conn, row) THEN Caught(None, TRUE, "execute")
        ELSE IF fault = "commit" THEN Caught(None, TRUE, "commit")
        ELSE Outcome(patients, Append(scans, row), {Some(row.id)}, "none", FALSE, "none")

get_scan(scan_id, fault) ==
    LET conn == get_db_connection(fault)
        found == {i \in 1..Len(scans) : scans[i].id = scan_id}
    IN  IF ~conn.ok THEN Caught(None, FALSE, "connect")
        ELSE IF fault = "execute" THEN Caught(None, TRUE, "execute")
        ELSE IF found = {} THEN Returns(None)
        ELSE Returns(Some(scans[CHOOSE i \in found : TRUE]))

\* ORDER BY scan_date DESC over the rows of set S: dates never increase.
OrderByScanDateDesc(S) ==
    {s \in Orderings(S) :
        \A i, j \in 1..Len(s) : i < j => ~TextLess(s[i].scan_date[1], s[j].scan_date[1])}

get_patient_scans(patient_id, fault) ==
    LET conn == get_db_connection(fault)
        hits == {s \in SeqToSet(scans) : s.patient_id = Some(patient_id)}
    IN  IF ~conn.ok THEN Caught(<<>>, FALSE, "connect")
        ELSE IF fault = "execute" THEN Caught(<<>>, TRUE, "execute")
        ELSE Outcome(patients, scans, OrderByScanDateDesc(hits), "none", FALSE, "none")

\* UPDATE scans SET doctor_notes = ? with the WHERE clause lost.
sql_update_doctor_notes_no_where(table, scan_id, doctor_notes) ==
    [i \in 1..Len(table) |-> [table[i] EXCEPT !.doctor_notes = doctor_notes]]

\* UPDATE scans SET doctor_notes = ? WHERE id = ?
sql_update_doctor_notes(table, scan_id, doctor_notes) ==
    [i \in 1..Len(table) |->
        IF table[i].id = scan_id
        THEN [table[i] EXCEPT !.doctor_notes = doctor_notes]
        ELSE table[i]]

\* update_scan returning cursor.rowcount > 0 in place of True.
update_scan_rowcount(scan_id, doctor_notes, fault) ==
    LET conn == get_db_connection(fault) IN
    IF ~conn.ok THEN Caught(FALSE, FALSE, "connect")
    ELSE IF fault = "execute" THEN Caught(FALSE, TRUE, "execute")
    ELSE IF fault = "commit" THEN Caught(FALSE, TRUE, "commit")
    ELSE Outcome(patients, sql_update_doctor_notes(scans, scan_id, doctor_notes),
                 {\E i \in 1..Len(scans) : scans[i].id = scan_id}, "none", FALSE, "none")

update_scan(scan_id, doctor_notes, fault) ==
    LET conn == get_db_connection(fault) IN
    IF ~conn.ok THEN Caught(FALSE, FALSE, "connect")
    ELSE IF fault = "execute" THEN Caught(FALSE, TRUE, "execute")
    ELSE IF fault = "commit" THEN Caught(FALSE, TRUE, "commit")
    ELSE Outcome(patients, sql_update_doctor_notes(scans, scan_id, doctor_notes),
                 {TRUE}, "none", FALSE, "none")

\* update_scan behind a signature (scan_id, doctor_notes=None, **kwargs):
\* keywords it does not know are accepted and dropped.
update_scan_call_any_keyword(scan_id, kwargs, fault) ==
    update_scan(scan_id,
                IF "doctor_notes" \in DOMAIN kwargs THEN kwargs.doctor_notes ELSE None,
                fault)

\* A call update_scan(scan_id, **kwargs): Python binds the keywords to the
\* signature (scan_id, doctor_notes=None) before the body runs; a keyword
\* the signature does not name raises TypeError at the call, outside the
\* function's try block.
update_scan_call(scan_id, kwargs, fault) ==
    IF DOMAIN kwargs \subseteq {"doctor_notes"}
    THEN update_scan(scan_id,
                     IF "doctor_notes" \in DOMAIN kwargs THEN kwargs.doctor_notes ELSE None,
                     fault)
    ELSE Outcome(patients, scans, {None}, "TypeError", FALSE, "none")

\* ------------------------------------------------------------------ engine
\* The locations load_brain_tumor_model looks at.
CwdPath == "brain_tumor_classifier.h5"
AppModelsPath == "app/models/brain_tumor_classifier.h5"
ModuleDirPath == "<module dir>/brain_tumor_classifier.h5"
Locations == {CwdPath, AppModelsPath, ModuleDirPath}

\* What a location holds: nothing, a file Keras cannot load, or a model.
FileStates == {"missing", "unloadable", "loadable"}

model_path == AppModelsPath
alternative_paths == <<CwdPath, AppModelsPath, ModuleDirPath>>

class_labels == <<"glioma", "meningioma", "notumor", "pituitary">>

\* The contract shapes: a 150 x 150 RGB canvas in, 4 classes out.
InputShape == <<150, 150, 3>>
NumClasses == Len(class_labels)

\* tf.keras.models.load_model(path) on a loadable artifact.
LoadedModel(path) ==
    [kind |-> "loaded", path |-> path, input_shape |-> InputShape, classes |-> NumClasses]

\* The try block's for ... else: the first alternative that exists.
RECURSIVE FirstExisting(_)
FirstExisting(paths) ==
    IF paths = <<>> THEN None
    ELSE IF files[Head(paths)] # "missing" THEN Some(Head(paths))
    ELSE FirstExisting(Tail(paths))

\* An except branch that logs and re-raises instead of building the
\* stand-in.
build_placeholder_reraise ==
    [raised |-> "FileNotFoundError", model |-> None]

\* The except branch: the untrained stand-in, Input(150,150,3) -> Conv2D ->
\* MaxPooling2D -> Flatten -> Dense(4, softmax).
build_placeholder ==
    [raised |-> "none",
     model |-> Some([kind |-> "placeholder", path |-> "", input_shape |-> <<150, 150, 3>>,
                     classes |-> 4])]

load_brain_tumor_model ==
    LET chosen == IF files[model_path] # "missing" THEN Some(model_path)
                  ELSE FirstExisting(alternative_paths)
    IN  IF chosen = None THEN build_placeholder
        ELSE IF files[chosen[1]] = "loadable"
             THEN [raised |-> "none", model |-> Some(LoadedModel(chosen[1]))]
        ELSE build_placeholder

\* What an image path leads to.
ImageKinds == {"valid", "corrupt", "missing"}

\* Image.open / resize / convert('RGB') / array / 255 / expand_dims: a
\* batch of one 150 x 150 x 3 tensor, or the exception re-raised.
preprocess_image(image) ==
    IF image = "valid"
    THEN [raised |-> "none", shape |-> <<1, 150, 150, 3>>]
    ELSE [raised |-> IF image = "missing" THEN "FileNotFoundError" ELSE "UnidentifiedImageError",
          shape |-> <<>>]

\* The probability vectors (in hundredths) a 4-way softmax may produce.
ProbVectors ==
    {<<87, 5, 5, 3>>, <<5, 87, 5, 3>>, <<10, 20, 30, 40>>, <<40, 40, 10, 10>>,
     <<25, 25, 25, 25>>}

\* np.argmin in place of np.argmax: the first index holding the smallest
\* value.
argmin(v) ==
    CHOOSE i \in 1..Len(v) :
        /\ \A j \in 1..Len(v) : v[j] >= v[i]
        /\ \A j \in 1..(i - 1) : v[j] > v[i]

\* np.argmax: the first index holding the largest value.
argmax(v) ==
    CHOOSE i \in 1..Len(v) :
        /\ \A j \in 1..Len(v) : v[j] <= v[i]
        /\ \A j \in 1..(i - 1) : v[j] < v[i]

\* model.predict(tensor): `forward` is what the forward pass of this call
\* does on a fitting tensor (its output vector, or an internal error).
model_predict(model, tensor, forward) ==
    IF model = None THEN [raised |-> "AttributeError", probs |-> <<>>]
    ELSE IF Tail(tensor.shape) # model[1].input_shape
         THEN [raised |-> "ValueError", probs |-> <<>>]
    ELSE IF ~forward.ok THEN [raised |-> "InternalError", probs |-> <<>>]
    ELSE [raised |-> "none", probs |-> forward.probs]

\* predict_tumor_type whose except branch logs and re-raises, as
\* preprocess_image's does.
predict_tumor_type_reraise(model, image, forward) ==
    LET preprocessed_image == preprocess_image(image)
        predictions == model_predict(model, preprocessed_image, forward)
        predicted_class_idx == argmax(predictions.probs)
    IN  IF preprocessed_image.raised # "none"
        THEN [raised |-> preprocessed_image.raised, result |-> [error |-> "none"]]
        ELSE IF predictions.raised # "none"
        THEN [raised |-> predictions.raised, result |-> [error |-> "none"]]
        ELSE [raised |-> "none",
              result |->
                [predicted_class |-> class_labels[predicted_class_idx],
                 confidence |-> predictions.probs[predicted_class_idx],
                 class_confidences |->
                    [l \in SeqToSet(class_labels) |->
                        predictions.probs[CHOOSE i \in 1..Len(class_labels) : class_labels[i] = l]],
                 raw_predictions |-> predictions.probs,
                 class_labels |-> class_labels]]

predict_tumor_type(model, image, forward) ==
    LET preprocessed_image == preprocess_image(image)
        predictions == model_predict(model, preprocessed_image, forward)
        predicted_class_idx == argmax(predictions.probs)
    IN  IF preprocessed_image.raised # "none"
        THEN [raised |-> "none", result |-> [error |-> preprocessed_image.raised]]
        ELSE IF predictions.raised # "none"
        THEN [raised |-> "none", result |-> [error |-> predictions.raised]]
        ELSE [raised |-> "none",
              result |->
                [predicted_class |-> class_labels[predicted_class_idx],
                 confidence |-> predictions.probs[predicted_class_idx],
                 class_confidences |->
                    [l \in SeqToSet(class_labels) |->
                        predictions.probs[CHOOSE i \in 1..Len(class_labels) : class_labels[i] = l]],
                 raw_predictions |-> predictions.probs,
                 class_labels |-> class_labels]]

\* ------------------------------------------------------------------ inputs
\* Arguments the callers pass (any value, None included).
JaneDoe == <<"A", "b">>
NameArgs == {None, Some(JaneDoe)}
\* patient_id as passed to add_scan: none, the first patient's, and one
\* past the last id the store can hold.
ScanPatientIdArgs == {None, Some(1), Some(MaxPatients + 1)}
\* (tumor_type, confidence) as passed to add_scan: unclassified, a
\* classifier result, and a confidence outside [0, 1].
ClassificationArgs ==
    {<<None, None>>, <<Some("meningioma"), Some(87)>>, <<Some("glioma"), Some(150)>>}
NotesArgs == {None, Some("stable")}
\* Keyword arguments of an update_scan call.
UpdateKwargs ==
    {[doctor_notes |-> n] : n \in NotesArgs}
        \cup {[tumor_type |-> Some("meningioma"), confidence |-> Some(87)]}

\* Search input: names, contacts, emails and queries over an alphabet with
\* both letter cases and the two LIKE wildcards.
Alphabet == {"a", "B", "%", "_"}
SearchNames == {Some(<<"a">>), Some(<<"A", "b">>), Some(<<"%">>), Some(<<"b", "_">>)}
SearchContacts == {None, Some(<<"b">>)}
SearchEmails == {None, Some(<<"a", "_">>)}
Queries == UNION {[1..n -> Alphabet] : n \in 0..MaxQueryLen}

Forwards ==
    {[ok |-> FALSE, probs |-> <<>>]} \cup {[ok |-> TRUE, probs |-> v] : v \in ProbVectors}

\* ------------------------------------------------------------------ actions
\* One repository call: its effect on the store and what the caller sees.
\* A connection the call left unclosed is closed by the runtime's
\* finalizer at a time the language does not fix: by the return (it is
\* then no longer open) or at some later collection (it is still open
\* when the call has returned).
Call(op, arg, out) ==
    \E ret \in out.rets, finalized \in (IF out.unclosed THEN BOOLEAN ELSE {TRUE}) :
        /\ patients' = out.patients
        /\ scans' = out.scans
        /\ last' = [op |-> op, arg |-> arg, fault |-> out.failure, raised |-> out.raised,
                    ret |-> ret, conn_open |-> out.unclosed /\ ~finalized]
        /\ UNCHANGED now
        /\ UNCHANGED engine_vars

AddPatient(cap, names, contacts, emails, faults) ==
    \E name \in names, contact \in contacts, email \in emails, fault \in faults :
        /\ Len(patients) < cap
        /\ Call("add_patient", [name |-> name, contact |-> contact, email |-> email],
                add_patient(name, Some(34), Some("F"), contact, email, None, None, fault))

GetPatient(faults) ==
    \E patient_id \in 1..(MaxPatients + 1), fault \in faults :
        Call("get_patient", patient_id, get_patient(patient_id, fault))

GetAllPatients(faults) ==
    \E fault \in faults :
        Call("get_all_patients", <<>>, get_all_patients(fault))

SearchPatients(queries, faults) ==
    \E query \in queries, fault \in faults :
        Call("search_patients", query, search_patients(query, fault))

AddScan(cap, classifications, faults) ==
    \E patient_id \in ScanPatientIdArgs, cls \in classifications, fault \in faults :
        /\ Len(scans) < cap
        /\ Call("add_scan", [patient_id |-> patient_id, tumor_type |-> cls[1],
                             confidence |-> cls[2]],
                add_scan(patient_id, Some("scan01.png"), cls[1], cls[2], None, fault))

GetScan(faults) ==
    \E scan_id \in 1..(MaxScans + 1), fault \in faults :
        Call("get_scan", scan_id, get_scan(scan_id, fault))

GetPatientScans(faults) ==
    \E patient_id \in 1..(MaxPatients + 1), fault \in faults :
        Call("get_patient_scans", patient_id, get_patient_scans(patient_id, fault))

UpdateScan(faults) ==
    \E scan_id \in 1..(MaxScans + 1), kwargs \in UpdateKwargs, fault \in faults :
        Call("update_scan", [scan_id |-> scan_id, kwargs |-> kwargs],
             update_scan_call(scan_id, kwargs, fault))

\* Midnight passes.
Tick ==
    /\ now < MaxDay
    /\ now' = now + 1
    /\ UNCHANGED <<patients, scans, last>>
    /\ UNCHANGED engine_vars

\* model = load_brain_tumor_model()
LoadModel ==
    LET r == load_brain_tumor_model IN
    /\ engine' = [state |-> IF r.raised = "none" THEN "Ready" ELSE "Failed",
                  model |-> r.model, raised |-> r.raised]
    /\ UNCHANGED <<files, answer, stats>>
    /\ UNCHANGED repo_vars

\* A predict_tumor_type that does not use the model it is given but
\* acquires one itself, on every call.
PredictReloading ==
    \E image \in ImageKinds, forward \in Forwards :
        /\ stats.calls < MaxCalls
        /\ LET m == load_brain_tumor_model
               r == predict_tumor_type(m.model, image, forward) IN
            /\ engine' = [engine EXCEPT !.model = m.model]
            /\ answer' = [image |-> image, forward_ok |-> forward.ok, probs |-> forward.probs,
                          model |-> m.model, raised |-> r.raised, result |-> r.result]
            /\ stats' = [calls |-> stats.calls + 1,
                         errors |-> IF "error" \in DOMAIN r.result
                                    THEN stats.errors + 1 ELSE stats.errors,
                         loads |-> stats.loads + 1]
        /\ UNCHANGED files
        /\ UNCHANGED repo_vars

\* result = predict_tumor_type(model, image_path)
Predict ==
    \E image \in ImageKinds, forward \in Forwards :
        /\ stats.calls < MaxCalls
        /\ LET r == predict_tumor_type(engine.model, image, forward) IN
            /\ answer' = [image |-> image, forward_ok |-> forward.ok, probs |-> forward.probs,
                          model |-> engine.model, raised |-> r.raised, result |-> r.result]
            /\ stats' = [calls |-> stats.calls + 1,
                         errors |-> IF "error" \in DOMAIN r.result
                                    THEN stats.errors + 1 ELSE stats.errors,
                         loads |-> stats.loads]
        /\ UNCHANGED <<files, engine>>
        /\ UNCHANGED repo_vars

\* The engine's startup, run lazily or eagerly but once: acquire the model
\* and keep it for the engine's lifetime.  stats.loads counts the runs of
\* load_brain_tumor_model.
EngineStartup ==
    LET r == load_brain_tumor_model IN
    /\ engine.state = "Unloaded"
    /\ engine' = [state |-> IF r.raised = "none" THEN "Ready" ELSE "Failed",
                  model |-> r.model, raised |-> r.raised]
    /\ stats' = [stats EXCEPT !.loads = @ + 1]
    /\ UNCHANGED <<files, answer>>
    /\ UNCHANGED repo_vars

\* classify(image) on a started engine: predict_tumor_type with the cached
\* model.
Classify ==
    /\ engine.state = "Ready"
    /\ Predict

\* ------------------------------------------------------------------ specifications
InitRepo ==
    /\ patients = <<>>
    /\ scans = <<>>
    /\ now = 1
    /\ last = [op |-> "none", arg |-> <<>>, fault |-> "none", raised |-> "none",
               ret |-> <<>>, conn_open |-> FALSE]

InitEngineIdle ==
    /\ engine = [state |-> "Unloaded", model |-> None, raised |-> "none"]
    /\ answer = [image |-> "none", forward_ok |-> TRUE, probs |-> <<>>, model |-> None,
                 raised |-> "none", result |-> [error |-> "none"]]
    /\ stats = [calls |-> 0, errors |-> 0, loads |-> 0]

\* The store as init_db leaves it, the engine not yet started.
Init ==
    /\ InitRepo
    /\ InitEngineIdle
    /\ files = [l \in Locations |-> "missing"]

\* The scan repository: scans of every classification, owned or not, on a
\* store whose statements and commits may fail.
Next ==
    \/ AddPatient(MaxPatients, NameArgs, {None}, {None}, {"none", "commit"})
    \/ AddScan(MaxScans, ClassificationArgs, {"none", "commit"})
    \/ GetPatientScans({"none", "execute"})
    \/ UpdateScan({"none", "commit"})

Spec == Init /\ [][Next]_vars

\* Every repository operation under every store failure: at connect, at a
\* statement, at commit.
NextFaults ==
    \/ AddPatient(MaxPatients, NameArgs, {None}, {None}, WriteFaults)
    \/ GetPatient(ReadFaults)
    \/ GetAllPatients(ReadFaults)
    \/ SearchPatients({<<>>, <<"_">>}, ReadFaults)
    \/ AddScan(MaxFaultScans, {<<None, None>>}, WriteFaults)
    \/ GetScan(ReadFaults)
    \/ GetPatientScans(ReadFaults)
    \/ UpdateScan(WriteFaults)

SpecFaults == Init /\ [][NextFaults]_vars

\* Patient search over days: patients whose text fields vary, queries of
\* every shape, a store that answers.
NextSearch ==
    \/ AddPatient(MaxSearchPatients, SearchNames, SearchContacts, SearchEmails, {"none"})
    \/ GetAllPatients({"none"})
    \/ SearchPatients(Queries, {"none"})
    \/ Tick

SpecSearch == Init /\ [][NextSearch]_vars

\* The classification engine, for every content of the model locations.
InitEngine ==
    /\ InitRepo
    /\ InitEngineIdle
    /\ files \in [Locations -> FileStates]

NextEngine ==
    \/ LoadModel
    \/ Predict

SpecEngine == InitEngine /\ [][NextEngine]_vars

\* A patient's scan list over days: unclassified scans of two owners, added
\* on the same day or on different days, a store that answers.
NextScanOrder ==
    \/ AddScan(MaxOrderScans, {<<None, None>>}, {"none"})
    \/ GetPatientScans({"none"})
    \/ Tick

SpecScanOrder == Init /\ [][NextScanOrder]_vars

\* Patient records over days: patients with and without the optional
\* fields, rejected and failed creations, and reads of every kind between a
\* creation and the read of the record.
NextRoundTrip ==
    \/ AddPatient(MaxSearchPatients, NameArgs, SearchContacts, SearchEmails, {"none", "commit"})
    \/ GetPatient({"none", "execute"})
    \/ GetAllPatients({"none"})
    \/ SearchPatients({<<>>}, {"none"})
    \/ UpdateScan({"none"})
    \/ Tick

SpecRoundTrip == Init /\ [][NextRoundTrip]_vars

\* The engine's lifetime: one startup, then classifications with the
\* cached model, for every content of the model locations.
NextLifetime ==
    \/ EngineStartup
    \/ Classify

SpecLifetime == InitEngine /\ [][NextLifetime]_vars

\* ------------------------------------------------------------------ claims
RepoOps ==
    {"add_patient", "get_patient", "get_all_patients", "search_patients",
     "add_scan", "get_scan", "get_patient_scans", "update_scan"}

\* The value each repository function returns from its except branch.
Absence(op) ==
    IF op \in {"get_all_patients", "search_patients", "get_patient_scans"} THEN <<>>
    ELSE IF op = "update_scan" THEN FALSE
    ELSE None

PatientIds == {patients[i].id : i \in 1..Len(patients)}

\* C1: add_scan with a patient_id that matches no patient returns None and
\* creates no row, so every stored scan's patient_id is the id of an
\* existing patient.
C1_ScanOwnerExists ==
    /\ (last.op = "add_scan" /\ last.arg.patient_id \notin {Some(i) : i \in PatientIds}
            => last.ret = None)
    /\ \A i \in 1..Len(scans) : scans[i].patient_id \in {Some(j) : j \in PatientIds}

\* C2: once a repository operation has returned, the connection it opened
\* is no longer open, whatever path it returned by.
C2_ConnectionReleased ==
    last.op \in RepoOps => ~last.conn_open

\* C6: every stored scan's confidence is null or lies in [0, 1] (0..100
\* hundredths).
C6_ConfidenceInUnitInterval ==
    \A i \in 1..Len(scans) :
        scans[i].confidence = None \/ scans[i].confidence[1] \in 0..100

\* C7: a repository operation that met a store failure (at connect, at a
\* statement or at commit) returned its absence value and raised nothing.
C7_FaultsReturnAbsence ==
    (last.op \in RepoOps /\ last.fault # "none") =>
        /\ last.raised = "none"
        /\ last.ret = Absence(last.op)

\* C7 witness: add_patient, get_all_patients and update_scan each seen
\* failing is more than one state; this one is an update_scan whose commit
\* failed on an existing scan.
C7_Witness ==
    /\ last.op = "update_scan"
    /\ last.fault = "commit"
    /\ last.ret = FALSE
    /\ \E i \in 1..Len(scans) : scans[i].id = last.arg.scan_id

\* A step that is a repository call whose record names `op` (the clock's
\* step is the only other one, and it moves `now`).
CallStep(op) == last'.op = op /\ now' = now

ClassificationKeywords(kwargs) == "tumor_type" \in DOMAIN kwargs

\* The scans of table `table` owned by patient p.
ScansOf(table, p) == {i \in 1..Len(table) : table[i].patient_id = Some(p)}

\* Scan i of `table` is the single scan of an existing patient and carries
\* no classification.
SoleUnclassifiedScan(table, i) ==
    /\ table[i].tumor_type = None
    /\ table[i].confidence = None
    /\ \E p \in PatientIds : ScansOf(table, p) = {i}

\* C4 as claimed: on a patient's single unclassified scan, the call
\* update_scan(scan_id, tumor_type=T, confidence=C) returns normally and the
\* patient's scans are then exactly that one scan, with tumor_type T and
\* confidence C.
C4_UpdateRecordsClassification ==
    [][\A i \in 1..Len(scans) :
        (/\ CallStep("update_scan")
         /\ ClassificationKeywords(last'.arg.kwargs)
         /\ scans[i].id = last'.arg.scan_id
         /\ SoleUnclassifiedScan(scans, i))
        => /\ last'.raised = "none"
           /\ Len(scans') = Len(scans)
           /\ scans'[i].tumor_type = last'.arg.kwargs.tumor_type
           /\ scans'[i].confidence = last'.arg.kwargs.confidence]_vars

\* C4 amended: update_scan takes no classification keywords.  Such a call
\* raises TypeError and changes neither table; a get_patient_scans that
\* follows it on a working store returns the patient's single scan as
\* add_scan stored it, tumor_type and confidence null.
C4_ClassificationKeywordsRejected ==
    [][/\ (CallStep("update_scan") /\ ClassificationKeywords(last'.arg.kwargs))
            => /\ last'.raised = "TypeError"
               /\ scans' = scans
               /\ patients' = patients
       /\ \A i \in 1..Len(scans) :
            (/\ last.op = "update_scan"
             /\ ClassificationKeywords(last.arg.kwargs)
             /\ scans[i].id = last.arg.scan_id
             /\ SoleUnclassifiedScan(scans, i)
             /\ CallStep("get_patient_scans")
             /\ last'.fault = "none"
             /\ scans[i].patient_id = Some(last'.arg))
            => /\ last'.ret = <<scans[i]>>
               /\ last'.ret[1].tumor_type = None
               /\ last'.ret[1].confidence = None]_vars

\* C4 witness: the classification call has just been made on the single,
\* unclassified scan of an existing patient.
C4_Witness ==
    /\ last.op = "update_scan"
    /\ ClassificationKeywords(last.arg.kwargs)
    /\ last.raised = "TypeError"
    /\ \E i \in 1..Len(scans) :
        scans[i].id = last.arg.scan_id /\ SoleUnclassifiedScan(scans, i)

\* q is a substring of t, letter case ignored.
IsSubstringCI(q, t) ==
    \E k \in 0..(Len(t) - Len(q)) : \A j \in 1..Len(q) : Lower(q[j]) = Lower(t[k + j])

FieldContains(col, q) == col # None /\ IsSubstringCI(q, col[1])

\* C5: search_patients(query) returns exactly the patients of which query
\* is a case-insensitive substring of name, contact or email; the empty
\* query returns every patient.
C5_SearchIsSubstringMatch ==
    (last.op = "search_patients" /\ last.fault = "none") =>
        /\ SeqToSet(last.ret) =
              {p \in SeqToSet(patients) :
                  \/ FieldContains(p.name, last.arg)
                  \/ FieldContains(p.contact, last.arg)
                  \/ FieldContains(p.email, last.arg)}
        /\ (last.arg = <<>> => SeqToSet(last.ret) = SeqToSet(patients))

\* C10: a call update_scan(scan_id, doctor_notes) leaves every patient,
\* every other scan and every field of the scan with that id but
\* doctor_notes as they were; when it succeeds that scan's doctor_notes is
\* the value given.
C10_UpdateChangesOnlyNotes ==
    [][(CallStep("update_scan") /\ ~ClassificationKeywords(last'.arg.kwargs)) =>
        /\ patients' = patients
        /\ Len(scans') = Len(scans)
        /\ \A i \in 1..Len(scans) :
            IF scans[i].id = last'.arg.scan_id
            THEN /\ scans'[i] = [scans[i] EXCEPT !.doctor_notes = scans'[i].doctor_notes]
                 /\ (last'.fault = "none" =>
                        scans'[i].doctor_notes = last'.arg.kwargs.doctor_notes)
            ELSE scans'[i] = scans[i]]_vars

\* C10 witness: a successful update of the notes of a classified scan,
\* beside a second scan whose notes stayed null.
C10_Witness ==
    /\ last.op = "update_scan"
    /\ last.fault = "none"
    /\ last.raised = "none"
    /\ last.ret = TRUE
    /\ last.arg.kwargs = [doctor_notes |-> Some("stable")]
    /\ \E i, j \in 1..Len(scans) :
        /\ i # j
        /\ scans[i].id = last.arg.scan_id
        /\ scans[i].doctor_notes = Some("stable")
        /\ scans[i].tumor_type # None
        /\ scans[j].doctor_notes = None

\* The acquisition the specification describes: the primary location, then
\* the alternatives in order, the first that loads; the placeholder only
\* when none loads.
RECURSIVE FirstLoadable(_)
FirstLoadable(paths) ==
    IF paths = <<>> THEN None
    ELSE IF files[Head(paths)] = "loadable" THEN Some(Head(paths))
    ELSE FirstLoadable(Tail(paths))

FirstLoadableModel ==
    LET p == FirstLoadable(<<model_path>> \o alternative_paths) IN
    IF p = None THEN build_placeholder.model ELSE Some(LoadedModel(p[1]))

\* C3: the model acquired is that of the first location, in lookup order,
\* that exists and loads; the placeholder is built only when no location
\* holds a loadable artifact.
C3_FirstLoadableLocationWins ==
    engine.state # "Unloaded" => engine.model = FirstLoadableModel

WellFormed(result) ==
    /\ DOMAIN result = {"predicted_class", "confidence", "class_confidences",
                        "raw_predictions", "class_labels"}
    /\ result.predicted_class \in SeqToSet(class_labels)
    /\ DOMAIN result.class_confidences = SeqToSet(class_labels)
    /\ result.confidence = result.class_confidences[result.predicted_class]

\* C8: for every content of the model locations, load_brain_tumor_model can
\* run and ends Ready with a model and no exception; when no location holds
\* a loadable artifact that model is the placeholder, and the placeholder
\* answers a readable image with a well-formed PredictionResult.
C8_AlwaysReady ==
    /\ ENABLED LoadModel
    /\ engine.state # "Unloaded" =>
        /\ engine.state = "Ready"
        /\ engine.raised = "none"
        /\ engine.model # None
        /\ ((\A l \in Locations : files[l] # "loadable") => engine.model[1].kind = "placeholder")
    /\ (/\ answer.image = "valid"
        /\ answer.forward_ok
        /\ answer.model # None
        /\ answer.model[1].kind = "placeholder")
        => (answer.raised = "none" /\ WellFormed(answer.result))

\* C8 witness: an artifact is present but unloadable, none is loadable, the
\* engine is Ready on the placeholder and has classified a readable image.
C8_Witness ==
    /\ files[CwdPath] = "unloadable"
    /\ \A l \in Locations : files[l] # "loadable"
    /\ engine.state = "Ready"
    /\ engine.model[1].kind = "placeholder"
    /\ answer.model = engine.model
    /\ answer.image = "valid"
    /\ "predicted_class" \in DOMAIN answer.result

\* The call recorded in `answer` failed in preprocessing or in the forward
\* pass.
CallFailed ==
    answer.image # "valid" \/ ~answer.forward_ok \/ answer.model = None

\* C9: predict_tumor_type raises nothing; a call that fails in
\* preprocessing or in the forward pass returns a result with the error
\* field alone, and every call that does not fail returns a prediction,
\* however many calls failed before it.
C9_PredictNeverRaises ==
    answer.image # "none" =>
        /\ answer.raised = "none"
        /\ (CallFailed => DOMAIN answer.result = {"error"})
        /\ (~CallFailed => WellFormed(answer.result))

\* C9 witness: after at least one failed call, a call on a readable image
\* returned a prediction.
C9_Witness ==
    /\ stats.errors > 0
    /\ answer.image = "valid"
    /\ "predicted_class" \in DOMAIN answer.result

\* The rows of result list `ret` that share a scan_date appear by rising id
\* (first inserted first) when up, by falling id otherwise.
TiesByInsertion(ret, up) ==
    \A i, j \in 1..Len(ret) :
        (i < j /\ ret[i].scan_date = ret[j].scan_date)
            => IF up THEN ret[i].id < ret[j].id ELSE ret[i].id > ret[j].id

\* C11: get_patient_scans(p) returns exactly the scans whose patient_id is
\* p, each once, scan_date never increasing along the list, and the scans of
\* one scan_date in insertion order (in one direction: first inserted first
\* throughout, or most recently inserted first throughout).
C11_ScansByDateThenInsertion ==
    (last.op = "get_patient_scans" /\ last.fault = "none") =>
        /\ SeqToSet(last.ret) = {scans[i] : i \in ScansOf(scans, last.arg)}
        /\ Len(last.ret) = Cardinality(ScansOf(scans, last.arg))
        /\ \A i, j \in 1..Len(last.ret) :
                i < j => ~TextLess(last.ret[i].scan_date[1], last.ret[j].scan_date[1])
        /\ (TiesByInsertion(last.ret, TRUE) \/ TiesByInsertion(last.ret, FALSE))

\* The number a text of decimal digits denotes.
RECURSIVE DigitsValue(_)
DigitsValue(t) ==
    IF t = <<>> THEN 0
    ELSE 10 * DigitsValue(SubSeq(t, 1, Len(t) - 1)) + (Code(t[Len(t)]) - Code("0"))

\* Text t is the civil date of `day` in YYYY-MM-DD form.
IsYmdOf(t, day) ==
    /\ Len(t) = 10
    /\ t[5] = "-" /\ t[8] = "-"
    /\ DigitsValue(SubSeq(t, 1, 4)) = CivilDate(day).y
    /\ DigitsValue(SubSeq(t, 6, 7)) = CivilDate(day).m
    /\ DigitsValue(SubSeq(t, 9, 10)) = CivilDate(day).d

\* C12: add_patient followed by get_patient on the returned id returns the
\* record as supplied, whatever is called in between.  In steps: a
\* successful add_patient stores one new row under an id no row had, with
\* the supplied fields, null for the omitted optional ones and the day of
\* the call as registration_date in YYYY-MM-DD form; no later call changes
\* or removes a stored row; and get_patient(id) on a working store returns
\* the stored row of that id.
C12_PatientRoundTrip ==
    [][/\ (CallStep("add_patient") /\ last'.ret # None) =>
            /\ Len(patients') = Len(patients) + 1
            /\ LET row == patients'[Len(patients')] IN
                /\ last'.ret = Some(row.id)
                /\ row.id \notin PatientIds
                /\ row.name = last'.arg.name
                /\ row.age = Some(34)
                /\ row.gender = Some("F")
                /\ row.contact = last'.arg.contact
                /\ row.email = last'.arg.email
                /\ row.address = None
                /\ row.medical_history = None
                /\ IsYmdOf(row.registration_date[1], now)
       /\ Len(patients') >= Len(patients)
       /\ \A i \in 1..Len(patients) : patients'[i] = patients[i]
       /\ (CallStep("get_patient") /\ last'.fault = "none") =>
            \A i \in 1..Len(patients) :
                patients[i].id = last'.arg => last'.ret = Some(patients[i])]_vars

\* C12 witness: the second patient, created with contact and email on the
\* second day, has been read back after the first, created without them on
\* the first day.
C12_Witness ==
    /\ last.op = "get_patient"
    /\ last.fault = "none"
    /\ last.arg = 2
    /\ Len(patients) >= 2
    /\ last.ret = Some(patients[2])
    /\ patients[2].contact # None
    /\ patients[2].email # None
    /\ patients[1].contact = None
    /\ patients[2].registration_date # patients[1].registration_date

\* C13: in every successful result, predicted_class is the label at an index
\* where the probability vector of the forward pass is largest, confidence
\* is the probability there and equals class_confidences[predicted_class],
\* and class_confidences has one entry for each of glioma, meningioma,
\* notumor and pituitary, the label's own probability.
C13_ResultMatchesProbabilities ==
    "predicted_class" \in DOMAIN answer.result =>
        /\ \E i \in 1..Len(answer.probs) :
                /\ \A j \in 1..Len(answer.probs) : answer.probs[j] <= answer.probs[i]
                /\ answer.result.predicted_class = <<"glioma", "meningioma", "notumor", "pituitary">>[i]
                /\ answer.result.confidence = answer.probs[i]
        /\ answer.result.confidence = answer.result.class_confidences[answer.result.predicted_class]
        /\ DOMAIN answer.result.class_confidences = {"glioma", "meningioma", "notumor", "pituitary"}
        /\ \A i \in 1..4 :
                answer.result.class_confidences[<<"glioma", "meningioma", "notumor", "pituitary">>[i]]
                    = answer.probs[i]

\* C13 witness: a successful result whose largest probability is at the
\* last index.
C13_Witness ==
    /\ "predicted_class" \in DOMAIN answer.result
    /\ answer.probs = <<10, 20, 30, 40>>
    /\ answer.result.predicted_class = "pituitary"
    /\ answer.result.confidence = 40

\* Name s comes before name t in alphabetical order, a letter's two cases
\* counting as the same letter.
RECURSIVE NameBefore(_, _)
NameBefore(s, t) ==
    IF t = <<>> THEN FALSE
    ELSE IF s = <<>> THEN TRUE
    ELSE IF Lower(Head(s)) # Lower(Head(t)) THEN Code(Lower(Head(s))) < Code(Lower(Head(t)))
    ELSE NameBefore(Tail(s), Tail(t))

\* C14: get_all_patients returns every stored patient exactly once, and
\* both get_all_patients and search_patients return their rows by name
\* ascending: no row's name comes alphabetically before the name of a row
\* listed ahead of it, for names of either letter case.
C14_ListedByNameAscending ==
    (last.op \in {"get_all_patients", "search_patients"} /\ last.fault = "none") =>
        /\ (last.op = "get_all_patients" =>
                /\ SeqToSet(last.ret) = SeqToSet(patients)
                /\ Len(last.ret) = Len(patients))
        /\ \A i, j \in 1..Len(last.ret) :
                i < j => ~NameBefore(last.ret[j].name[1], last.ret[i].name[1])

C16_UpdateOfMissingScanReturnsTrue ==
    [][(CallStep("update_scan") /\ ~ClassificationKeywords(last'.arg.kwargs)) =>
        /\ last'.raised = "none"
        /\ (last'.ret = TRUE) = (last'.fault = "none")
        /\ ((last'.fault = "none" /\ \A i \in 1..Len(scans) : scans[i].id # last'.arg.scan_id)
                => /\ last'.ret = TRUE
                   /\ scans' = scans
                   /\ patients' = patients)]_vars

\* C16 witness: update_scan with notes for an id one past the only stored
\* scan returned True, and that scan's notes are still null.
C16_Witness ==
    /\ last.op = "update_scan"
    /\ last.fault = "none"
    /\ last.raised = "none"
    /\ last.arg.kwargs = [doctor_notes |-> Some("stable")]
    /\ last.ret = TRUE
    /\ Len(scans) = 1
    /\ last.arg.scan_id = scans[1].id + 1
    /\ scans[1].doctor_notes = None

====
